---------------------------- MODULE Spec2Model ----------------------------
(***************************************************************************)
(* Model of ai_module_platform.py: the FastAPI service of the Onboardian   *)
(* instructional-design pipeline.                                          *)
(*                                                                         *)
(* Data representation                                                     *)
(*   str            a sequence of one-character strings                    *)
(*   bytes          a sequence of byte values 0..255                       *)
(*   Dict[str,float] a sequence of <<key, value>> pairs with distinct keys, *)
(*                  in insertion order (Python dicts iterate in insertion  *)
(*                  order); a confidence is kept in tenths (0.3 is 3)      *)
(*   Dict[str,bool] a function from a set of field names to BOOLEAN        *)
(*   List[str]      a sequence of strings                                  *)
(*                                                                         *)
(* Two specifications:                                                     *)
(*   Spec      the running service: requests arrive in any order, the      *)
(*             upload handler is suspended at its await, the global        *)
(*             vector_store is written.                                    *)
(*   SpecPure  one call of one placeholder function on an input drawn      *)
(*             from a bounded set.                                         *)
(***************************************************************************)
EXTENDS Integers, Sequences, FiniteSets

VARIABLES
    documents,   \* vector_store.documents: list of (content, metadata)
    pending,     \* /upload: the request suspended at "await file.read()"
    req,         \* the request handled last: [op, input]
    resp,        \* the response (or HTTPException) it was given
    calls,       \* the pipeline stages that request invoked, in order
    probe,       \* a text fixed for the whole behaviour
    probeResp,   \* the response of the first Analyse of probe
    probeCalls,  \* how many times probe was analysed (saturates at 2)
    call,        \* SpecPure: the function applied and its arguments
    ret          \* SpecPure: what the call produced

vars == <<documents, pending, req, resp, calls, probe, probeResp, probeCalls, call, ret>>

svcVars == <<documents, pending, req, resp, calls, probe, probeResp, probeCalls>>

----------------------------------------------------------------------------
(* Bounds and input alphabets *)

MaxLen == 2

MaxFileLen == 1

MaxItems == 2

MaxReqItems == 1

MaxDocs == 1

Chars == {" ", "a"}

ByteVals == {32, 97, 255}

Labels == {"factual", "procedural", "conceptual", "other"}

Scores == {0, 3, 5}

ObjectiveStrings == {"Obj1", "Obj2"}

ArchetypeStrings == {"Knowledge", "Procedural", "Leadership"}

FieldNames == {"a", "b"}

FileNames == {"notes.txt"}

BoundedSeq(S, n) == UNION {[1..k -> S] : k \in 0..n}

Texts == BoundedSeq(Chars, MaxLen)

Files == BoundedSeq(ByteVals, MaxFileLen)

DocContents == {<<"a">>}

IsDict(d) == \A i, j \in 1..Len(d) : i # j => d[i][1] # d[j][1]

DomainDicts == {d \in BoundedSeq(Labels \X Scores, Cardinality(Labels)) : IsDict(d)}

ObjectiveLists == BoundedSeq(ObjectiveStrings, MaxItems)

ArchetypeLists == BoundedSeq(ArchetypeStrings, MaxItems)

ReqObjectiveLists == BoundedSeq({"Obj1"}, MaxReqItems)

ReqArchetypeLists == BoundedSeq({"Knowledge", "Procedural"}, MaxReqItems)

BoolDicts == UNION {[S -> BOOLEAN] : S \in SUBSET FieldNames}

EmptyDict == [k \in {} |-> TRUE]

OptionalBoolDicts == {[isNone |-> TRUE, dict |-> EmptyDict]} \cup {[isNone |-> FALSE, dict |-> d] : d \in BoolDicts}

----------------------------------------------------------------------------
(* Python built-ins used by the source *)

IsSpace(c) == c \in {" ", "\t", "\n", "\r"}

RECURSIVE lstrip(_)
lstrip(s) == IF Len(s) > 0 /\ IsSpace(Head(s)) THEN lstrip(Tail(s)) ELSE s

RECURSIVE rstrip(_)
rstrip(s) == IF Len(s) > 0 /\ IsSpace(s[Len(s)]) THEN rstrip(SubSeq(s, 1, Len(s) - 1)) ELSE s

strip(s) == rstrip(lstrip(s))

Truthy(s) == Len(s) > 0

Keys(d) == {d[i][1] : i \in 1..Len(d)}

Get(d, k) == d[CHOOSE i \in 1..Len(d) : d[i][1] = k][2]

\* max(domains, key=domains.get): the first key, in iteration order, whose
\* value no other value exceeds.
IsFirstMax(d, i) == (\A j \in 1..Len(d) : d[j][2] <= d[i][2]) /\ (\A k \in 1..(i - 1) : d[k][2] < d[i][2])

MaxKey(d) == d[CHOOSE i \in 1..Len(d) : IsFirstMax(d, i)][1]

\* bytes.decode("utf-8") over ByteVals: a byte below 0x80 is the character of
\* that code; 0xF5..0xFF occur in no UTF-8 sequence and raise UnicodeDecodeError.
Chr(b) == IF b = 32 THEN " " ELSE "a"

DecodeOk(file_bytes) == \A i \in 1..Len(file_bytes) : file_bytes[i] < 128

Decode(file_bytes) == [i \in 1..Len(file_bytes) |-> Chr(file_bytes[i])]

----------------------------------------------------------------------------
(* Results of a call *)

Returned(v) == [status |-> "returned", value |-> v]

Raised(e) == [status |-> "raised", value |-> e]

NotCalled == [status |-> "pending", value |-> "none"]

HTTPException(status_code, detail) == [kind |-> "HTTPException", status_code |-> status_code, detail |-> detail]

AnalysisResponse(domains, archetypes, objectives) == [kind |-> "AnalysisResponse", domains |-> domains, archetypes |-> archetypes, objectives |-> objectives]

BlueprintResponse(blueprint) == [kind |-> "BlueprintResponse", blueprint |-> blueprint]

ValidationResponse(valid, message) == [kind |-> "ValidationResponse", valid |-> valid, message |-> message]

NoResponse == [kind |-> "none"]

StageCall(fn, arg) == [fn |-> fn, arg |-> arg]

----------------------------------------------------------------------------
(* Placeholder logic *)

parse_document(file_bytes, filename) == IF DecodeOk(file_bytes) THEN Decode(file_bytes) ELSE <<>>

\* Variant: the classifier consults the global vector_store.
classify_content_indexed(text) == IF Len(documents) > 0 THEN <<<<"factual", 4>>, <<"procedural", 3>>, <<"conceptual", 3>>>> ELSE <<<<"factual", 3>>, <<"procedural", 4>>, <<"conceptual", 3>>>>

classify_content(text) == <<<<"factual", 3>>, <<"procedural", 4>>, <<"conceptual", 3>>>>

generate_objectives(text) == <<"Explain key concepts from the input file with 100% accuracy.", "Apply the described procedures in a simulated environment with >=85% success.">>

mapping == <<<<"factual", "Knowledge">>, <<"procedural", "Procedural">>, <<"conceptual", "Leadership">>>>

mapping_values == [i \in 1..Len(mapping) |-> mapping[i][2]]

mapping_get(k, default) == IF k \in Keys(mapping) THEN Get(mapping, k) ELSE default

Truncate(s, n) == SubSeq(s, 1, IF Len(s) < n THEN Len(s) ELSE n)

\* Variant: the secondaries are not filtered against the primary.
select_archetypes_unfiltered(domains) ==
    IF Len(domains) = 0 THEN Raised("ValueError")
    ELSE LET primary == MaxKey(domains)
             primary_arch == mapping_get(primary, "Knowledge")
             secondary_arch == Truncate(mapping_values, 2)
         IN  Returned(<<primary_arch>> \o secondary_arch)

select_archetypes(domains) ==
    IF Len(domains) = 0 THEN Raised("ValueError")
    ELSE LET primary == MaxKey(domains)
             primary_arch == mapping_get(primary, "Knowledge")
             secondary_arch == Truncate(SelectSeq(mapping_values, LAMBDA arch : arch # primary_arch), 2)
         IN  Returned(<<primary_arch>> \o secondary_arch)

Sections ==
    << [name |-> "Module Overview", duration |-> "5 min"],
       [name |-> "Pre-Assessment", duration |-> "5 min"],
       [name |-> "Core Learning", duration |-> "25 min"],
       [name |-> "Application Workshop", duration |-> "30 min"],
       [name |-> "Assessment", duration |-> "10 min"],
       [name |-> "Resources", duration |-> "5 min"] >>

\* Variant: the two overview fields are exchanged.
build_blueprint_swapped(objectives, archetypes) ==
    [overview |-> [title |-> "Generated Module", archetypes |-> objectives, objectives |-> archetypes],
     sections |-> Sections]

build_blueprint(objectives, archetypes) ==
    [overview |-> [title |-> "Generated Module", archetypes |-> archetypes, objectives |-> objectives],
     sections |-> Sections]

\* Variant: any() in place of all().
validate_inputs_any(required_fields) == \E k \in DOMAIN required_fields : required_fields[k]

validate_inputs(required_fields) == \A k \in DOMAIN required_fields : required_fields[k]

----------------------------------------------------------------------------
(* API endpoints, as functions from the request to the response and the    *)
(* stages invoked                                                          *)

Outcome(response, stages) == [resp |-> response, calls |-> stages]

\* Variant: the guard without its strip() half.
ContentMissing_nostrip(content) == ~Truthy(content)

ContentMissing(content) == ~Truthy(content) \/ ~Truthy(strip(content))

\* The stages shared by /analyse and /upload (lines 180-183 and 218-221).
RunStages(text) ==
    LET domains == classify_content(text)
        objectives == generate_objectives(text)
        archetypes == select_archetypes(domains)
    IN  Outcome(AnalysisResponse(domains, archetypes.value, objectives),
                <<StageCall("classify_content", text), StageCall("generate_objectives", text), StageCall("select_archetypes", domains)>>)

AnalyseOutcome(content) ==
    IF ContentMissing(content)
    THEN Outcome(HTTPException(400, "No content provided."), <<>>)
    ELSE RunStages(content)

BlueprintOutcome(objectives, archetypes) ==
    IF ~Truthy(objectives) \/ ~Truthy(archetypes)
    THEN Outcome(HTTPException(400, "Objectives and archetypes are required."), <<>>)
    ELSE Outcome(BlueprintResponse(build_blueprint(objectives, archetypes)), <<StageCall("build_blueprint", <<objectives, archetypes>>)>>)

\* req.required_fields or {}
OrEmptyDict(required_fields) == IF required_fields.isNone THEN EmptyDict ELSE required_fields.dict

ValidateOutcome(required_fields) ==
    LET valid == validate_inputs(OrEmptyDict(required_fields))
        msg == IF valid THEN "All required inputs provided." ELSE "Missing required fields; generation blocked."
    IN  Outcome(ValidationResponse(valid, msg), <<StageCall("validate_inputs", OrEmptyDict(required_fields))>>)

UploadOutcome(contents, filename) ==
    LET text == parse_document(contents, filename)
    IN  IF ~Truthy(text)
        THEN Outcome(HTTPException(400, "Unable to parse uploaded file"), <<StageCall("parse_document", contents)>>)
        ELSE Outcome(RunStages(text).resp, <<StageCall("parse_document", contents)>> \o RunStages(text).calls)

MULTIPART_AVAILABLE == TRUE

NoFile == [present |-> FALSE, contents |-> <<>>, filename |-> ""]

----------------------------------------------------------------------------
(* Spec: the service *)

Init ==
    /\ documents = <<>>
    /\ pending = NoFile
    /\ req = [op |-> "none", input |-> <<>>]
    /\ resp = NoResponse
    /\ calls = <<>>
    /\ probe \in Texts
    /\ probeResp = NoResponse
    /\ probeCalls = 0
    /\ call = [fn |-> "none", args |-> <<>>]
    /\ ret = NotCalled

Respond(op, input, outcome) ==
    /\ req' = [op |-> op, input |-> input]
    /\ resp' = outcome.resp
    /\ calls' = outcome.calls

\* History of the responses given to the text probe (not program state).
Observe(content) ==
    IF content = probe
    THEN /\ probeResp' = IF probeCalls = 0 THEN AnalyseOutcome(content).resp ELSE probeResp
         /\ probeCalls' = IF probeCalls < 2 THEN probeCalls + 1 ELSE probeCalls
    ELSE UNCHANGED <<probeResp, probeCalls>>

health ==
    /\ req' = [op |-> "health", input |-> <<>>]
    /\ resp' = [kind |-> "health", status |-> "ok"]
    /\ calls' = <<>>
    /\ UNCHANGED <<documents, pending, probe, probeResp, probeCalls, call, ret>>

analyse_document ==
    \E content \in Texts :
        /\ Respond("analyse", content, AnalyseOutcome(content))
        /\ Observe(content)
        /\ UNCHANGED <<documents, pending, probe, call, ret>>

\* "return await analyse_document(request)": the same coroutine, run to its end
analyze_alias ==
    \E content \in Texts :
        /\ Respond("analyze", content, AnalyseOutcome(content))
        /\ Observe(content)
        /\ UNCHANGED <<documents, pending, probe, call, ret>>

generate_blueprint ==
    \E objectives \in ReqObjectiveLists, archetypes \in ReqArchetypeLists :
        /\ Respond("blueprint", [objectives |-> objectives, archetypes |-> archetypes], BlueprintOutcome(objectives, archetypes))
        /\ UNCHANGED <<documents, pending, probe, probeResp, probeCalls, call, ret>>

validate_module ==
    \E required_fields \in OptionalBoolDicts :
        /\ Respond("validate", required_fields, ValidateOutcome(required_fields))
        /\ UNCHANGED <<documents, pending, probe, probeResp, probeCalls, call, ret>>

\* upload_file up to its suspension at "await file.read()".  The handler
\* reads and writes no shared state, so one suspended upload stands for any
\* number of them; every other request may run while it is suspended.
upload_read ==
    /\ MULTIPART_AVAILABLE
    /\ pending = NoFile
    /\ \E contents \in Files, filename \in FileNames :
          pending' = [present |-> TRUE, contents |-> contents, filename |-> filename]
    /\ UNCHANGED <<documents, req, resp, calls, probe, probeResp, probeCalls, call, ret>>

\* upload_file from the resumption to the response
upload_file ==
    /\ MULTIPART_AVAILABLE
    /\ pending # NoFile
    /\ Respond("upload", pending.contents, UploadOutcome(pending.contents, pending.filename))
    /\ pending' = NoFile
    /\ UNCHANGED <<documents, probe, probeResp, probeCalls, call, ret>>

\* vector_store.index_document(content, metadata).  No endpoint calls it; it
\* stands for any writer of the module-level singleton.
index_document ==
    /\ Len(documents) < MaxDocs
    /\ \E content \in DocContents :
          documents' = Append(documents, <<content, EmptyDict>>)
    /\ UNCHANGED <<pending, req, resp, calls, probe, probeResp, probeCalls, call, ret>>

Next ==
    \/ health
    \/ analyse_document
    \/ analyze_alias
    \/ generate_blueprint
    \/ validate_module
    \/ upload_read
    \/ upload_file
    \/ index_document

Spec == Init /\ [][Next]_vars

----------------------------------------------------------------------------
(* SpecPure: one call of one placeholder function *)

InitPure ==
    /\ documents = <<>>
    /\ pending = NoFile
    /\ req = [op |-> "none", input |-> <<>>]
    /\ resp = NoResponse
    /\ calls = <<>>
    /\ probe = <<>>
    /\ probeResp = NoResponse
    /\ probeCalls = 0
    /\ ret = NotCalled
    /\ \/ \E file_bytes \in Files, filename \in FileNames : call = [fn |-> "parse_document", args |-> <<file_bytes, filename>>]
       \/ \E text \in Texts : call = [fn |-> "classify_content", args |-> <<text>>]
       \/ \E text \in Texts : call = [fn |-> "generate_objectives", args |-> <<text>>]
       \/ \E domains \in DomainDicts : call = [fn |-> "select_archetypes", args |-> <<domains>>]
       \/ \E objectives \in ObjectiveLists, archetypes \in ArchetypeLists : call = [fn |-> "build_blueprint", args |-> <<objectives, archetypes>>]
       \/ \E required_fields \in BoolDicts : call = [fn |-> "validate_inputs", args |-> <<required_fields>>]

call_parse_document ==
    /\ call.fn = "parse_document"
    /\ ret.status = "pending"
    /\ ret' = Returned(parse_document(call.args[1], call.args[2]))
    /\ UNCHANGED <<svcVars, call>>

call_classify_content ==
    /\ call.fn = "classify_content"
    /\ ret.status = "pending"
    /\ ret' = Returned(classify_content(call.args[1]))
    /\ UNCHANGED <<svcVars, call>>

call_generate_objectives ==
    /\ call.fn = "generate_objectives"
    /\ ret.status = "pending"
    /\ ret' = Returned(generate_objectives(call.args[1]))
    /\ UNCHANGED <<svcVars, call>>

call_select_archetypes ==
    /\ call.fn = "select_archetypes"
    /\ ret.status = "pending"
    /\ ret' = select_archetypes(call.args[1])
    /\ UNCHANGED <<svcVars, call>>

call_build_blueprint ==
    /\ call.fn = "build_blueprint"
    /\ ret.status = "pending"
    /\ ret' = Returned(build_blueprint(call.args[1], call.args[2]))
    /\ UNCHANGED <<svcVars, call>>

call_validate_inputs ==
    /\ call.fn = "validate_inputs"
    /\ ret.status = "pending"
    /\ ret' = Returned(validate_inputs(call.args[1]))
    /\ UNCHANGED <<svcVars, call>>

NextPure ==
    \/ call_parse_document
    \/ call_classify_content
    \/ call_generate_objectives
    \/ call_select_archetypes
    \/ call_build_blueprint
    \/ call_validate_inputs

SpecPure == InitPure /\ [][NextPure]_vars

----------------------------------------------------------------------------
(* Vocabulary of the properties: the design's canonical tables, stated     *)
(* independently of the code above                                         *)

CanonicalLabels == <<"factual", "procedural", "conceptual">>

CanonicalArchetypes == <<"Knowledge", "Procedural", "Leadership">>

ArchetypeOf(label) ==
    CASE label = "factual" -> "Knowledge"
      [] label = "procedural" -> "Procedural"
      [] label = "conceptual" -> "Leadership"
      [] OTHER -> "Knowledge"

Range(s) == {s[i] : i \in 1..Len(s)}

Blank(text) == \A i \in 1..Len(text) : IsSpace(text[i])

ScoreOf(d, label) == Get(d, label)

MaxLabels(d) == {l \in Keys(d) : \A m \in Keys(d) : ScoreOf(d, m) <= ScoreOf(d, l)}

FirstCanonicalIn(S) == CanonicalLabels[CHOOSE i \in 1..3 : CanonicalLabels[i] \in S /\ \A j \in 1..(i - 1) : CanonicalLabels[j] \notin S]

Without(s, x) == SelectSeq(s, LAMBDA y : y # x)

IsInvalidInput(r) == r.kind = "HTTPException" /\ r.status_code = 400

Minutes(duration) ==
    CASE duration = "5 min" -> 5
      [] duration = "10 min" -> 10
      [] duration = "25 min" -> 25
      [] duration = "30 min" -> 30
      [] OTHER -> 0

RECURSIVE TotalMinutes(_)
TotalMinutes(sections) == IF Len(sections) = 0 THEN 0 ELSE Minutes(Head(sections).duration) + TotalMinutes(Tail(sections))

SelectDone == call.fn = "select_archetypes" /\ ret.status # "pending"

BuildDone == call.fn = "build_blueprint" /\ ret.status # "pending"

ClassifyDone == call.fn = "classify_content" /\ ret.status # "pending"

AnalyseOp == req.op \in {"analyse", "analyze"}

----------------------------------------------------------------------------
(* Properties *)

\* C1: when two or more of the labels factual, procedural, conceptual share
\* the maximum confidence, select_archetypes takes as primary the tied label
\* that comes first in the canonical order, whatever the insertion order of
\* the mapping.
C1_TieBreakCanonical ==
    (SelectDone /\ Keys(call.args[1]) = Range(CanonicalLabels) /\ Cardinality(MaxLabels(call.args[1])) >= 2)
        => /\ ret.status = "returned"
           /\ ret.value[1] = ArchetypeOf(FirstCanonicalIn(MaxLabels(call.args[1])))

\* C2: for a mapping holding the three canonical labels, select_archetypes
\* returns exactly 3 distinct archetypes: the archetype of a label of maximal
\* confidence (Knowledge for an unknown label), then the two other archetypes
\* in the order Knowledge, Procedural, Leadership.
C2_PrimaryThenCanonicalRest ==
    (SelectDone /\ Range(CanonicalLabels) \subseteq Keys(call.args[1]))
        => /\ ret.status = "returned"
           /\ Len(ret.value) = 3
           /\ Cardinality(Range(ret.value)) = 3
           /\ \E l \in MaxLabels(call.args[1]) : ret.value[1] = ArchetypeOf(l)
           /\ SubSeq(ret.value, 2, 3) = Without(CanonicalArchetypes, ret.value[1])

C2_Witness ==
    /\ SelectDone
    /\ Range(CanonicalLabels) \subseteq Keys(call.args[1])
    /\ MaxLabels(call.args[1]) = {"conceptual"}
    /\ ret.status = "returned"
    /\ ret.value = <<"Leadership", "Knowledge", "Procedural">>

\* C3: /analyse and /analyze answer empty or whitespace-only content with the
\* 400 client error, invoke no pipeline stage and give no analysis.
C3_BlankContentRejected ==
    (AnalyseOp /\ Blank(req.input))
        => /\ IsInvalidInput(resp)
           /\ Len(calls) = 0

C3_Witness ==
    /\ req.op = "analyze"
    /\ Len(req.input) > 0
    /\ Blank(req.input)
    /\ IsInvalidInput(resp)
    /\ Len(calls) = 0

\* C4: for non-empty objectives and archetypes, build_blueprint returns the
\* six fixed sections in order (80 minutes in total), the title "Generated
\* Module", and overview.objectives and overview.archetypes equal to its two
\* arguments.
C4_BlueprintTemplate ==
    (BuildDone /\ Len(call.args[1]) > 0 /\ Len(call.args[2]) > 0)
        => /\ ret.status = "returned"
           /\ ret.value.sections =
                << [name |-> "Module Overview", duration |-> "5 min"],
                   [name |-> "Pre-Assessment", duration |-> "5 min"],
                   [name |-> "Core Learning", duration |-> "25 min"],
                   [name |-> "Application Workshop", duration |-> "30 min"],
                   [name |-> "Assessment", duration |-> "10 min"],
                   [name |-> "Resources", duration |-> "5 min"] >>
           /\ TotalMinutes(ret.value.sections) = 80
           /\ ret.value.overview.title = "Generated Module"
           /\ ret.value.overview.objectives = call.args[1]
           /\ ret.value.overview.archetypes = call.args[2]

C4_Witness ==
    /\ BuildDone
    /\ call.args[1] = <<"Obj2", "Obj1">>
    /\ call.args[2] = <<"Leadership", "Knowledge">>
    /\ ret.status = "returned"
    /\ ret.value.overview.objectives = <<"Obj2", "Obj1">>
    /\ ret.value.overview.archetypes = <<"Leadership", "Knowledge">>

\* C5: the builder build(objectives, archetypes) fails, and returns no
\* blueprint, when the objectives or the archetypes are empty.
C5_BuilderRejectsEmpty ==
    (BuildDone /\ (Len(call.args[1]) = 0 \/ Len(call.args[2]) = 0))
        => ret.status = "raised"

C7_ClassifierRejectsBlank ==
    (ClassifyDone /\ Blank(call.args[1]))
        => ret.status = "raised"

\* C8: the archetype selector fails, and returns no archetype list, when its
\* mapping lacks one of the labels factual, procedural, conceptual (the empty
\* mapping included).  Any exception is counted as the failure.
C8_SelectorRejectsMissingLabel ==
    (SelectDone /\ ~(Range(CanonicalLabels) \subseteq Keys(call.args[1])))
        => ret.status = "raised"

\* C9: every Analyse of a text gets the response the first Analyse of that
\* text got, whatever requests and vector_store writes come in between.
C9_AnalyseRepeats ==
    (AnalyseOp /\ req.input = probe)
        => /\ resp.kind = probeResp.kind
           /\ resp = probeResp

C9_Witness ==
    /\ AnalyseOp
    /\ req.input = probe
    /\ probeCalls = 2
    /\ Len(documents) > 0
    /\ pending.present
    /\ resp.kind = "AnalysisResponse"
    /\ resp = probeResp

\* C10: the text handed to the classifier and to the objective generator is
\* never empty or whitespace-only, on the Analyse path and on the upload path.
C10_StagesSeeNonBlankText ==
    \A i \in 1..Len(calls) :
        calls[i].fn \in {"classify_content", "generate_objectives"} => ~Blank(calls[i].arg)

=============================================================================
